---- MODULE Spec2Model ----
(***************************************************************************)
(* Model of the spam decision and escalation engine of src/main.py: the    *)
(* heuristic pre-filter (check_if_possible_spam), the classifier adapter   *)
(* (is_spam), the metrics record and its file (load_metrics/save_metrics)  *)
(* and the on_message coroutine.  Every on_message call is a task of the   *)
(* asyncio event loop: tasks interleave only at their await points, so     *)
(* each action below is the code between two consecutive awaits of one     *)
(* task.                                                                   *)
(***************************************************************************)
EXTENDS Integers, Sequences, FiniteSets, TLC

\* ------------------------------------------------------------ bounds
\* user ids 1..MaxUsers
MaxUsers == 2
\* messages of users delivered to on_message over a run
MaxMessages == 6
\* on_message tasks that may be suspended at an await at the same time
MaxInFlight == 2
\* last instant of the wall clock (seconds)
MaxTime == 61
\* departures of a run from the plain one (user 1 alone, one task at a time,
\* every call returning, the clock standing still): calls (platform,
\* classifier, file write) that raise, messages that arrive while another
\* task is suspended, messages of another user, clock advances
MaxDisturbances == 2

Users == 1..MaxUsers
Slots == 1..MaxInFlight

\* ------------------------------------------------------------ program constants
MAX_SUS_MESSAGES == 5
TIME_WINDOW == 60
\* Seconds that may pass between two steps: a message arrives with, just
\* inside, at the edge of, or just outside the window of an earlier one.
TickSteps == {1, TIME_WINDOW - 1, TIME_WINDOW, TIME_WINDOW + 1}
MinContentLen == 20
TrustedRoles == 2
NewAccountDays == 7
NewMemberDays == 7
UnknownJoinAge == 9999
TimeoutStepMinutes == 10

\* ------------------------------------------------------------ pre-filter
\* A message as check_if_possible_spam sees it.  len: len(content); mention:
\* '@everyone' or '@here' in content; link: LINK_RE matches; keyword: one of
\* scam_patterns matches the lowered content; member: the author is a
\* discord.Member (a discord.User, e.g. a webhook, has no roles and no
\* joined_at); roles: len(author.roles); acct: account_age_days; joined:
\* whether joined_at is set; join: days since joined_at.
SampleMessages ==
    { [len |-> 19, mention |-> FALSE, link |-> TRUE,  keyword |-> TRUE,
       member |-> TRUE,  roles |-> 1, acct |-> 3,   joined |-> TRUE,  join |-> 1],
      [len |-> 25, mention |-> TRUE,  link |-> FALSE, keyword |-> FALSE,
       member |-> FALSE, roles |-> 0, acct |-> 400, joined |-> FALSE, join |-> 0],
      [len |-> 25, mention |-> TRUE,  link |-> FALSE, keyword |-> FALSE,
       member |-> TRUE,  roles |-> 2, acct |-> 400, joined |-> TRUE,  join |-> 300],
      [len |-> 35, mention |-> FALSE, link |-> FALSE, keyword |-> TRUE,
       member |-> TRUE,  roles |-> 1, acct |-> 7,   joined |-> TRUE,  join |-> 7],
      [len |-> 35, mention |-> FALSE, link |-> FALSE, keyword |-> FALSE,
       member |-> TRUE,  roles |-> 1, acct |-> 7,   joined |-> FALSE, join |-> 0] }

account_age_days(m) == m.acct

member_join_age_days(m) ==
    IF ~m.member \/ ~m.joined THEN UnknownJoinAge ELSE m.join

\* A message of exactly MinContentLen characters is exempted too.
TooShortInclusive(m) == m.len <= MinContentLen

\* L114
TooShort(m) == m.len < MinContentLen

\* An author with exactly TrustedRoles roles is trusted too.
TrustedFromThreshold(m) == m.roles >= TrustedRoles

\* L119
Trusted(m) == m.roles > TrustedRoles

\* Links are not looked for.
LinkReNever(m) == FALSE

\* L106, L126: LINK_RE.search(content) finds http://, https://, discord.gg/
\* or t.me/ (in any letter case) followed by a non-blank character.
LinkRe(m) == m.link

\* "raise" when the code raises: message.author.roles on an author that is
\* not a Member is an AttributeError.
check_if_possible_spam(m) ==
    IF TooShort(m) THEN "no"
    ELSE IF m.mention
         THEN IF ~m.member THEN "raise"
              ELSE IF Trusted(m) THEN "no" ELSE "yes"
    ELSE IF LinkRe(m) THEN "yes"
    ELSE IF account_age_days(m) < NewAccountDays THEN "yes"
    ELSE IF member_join_age_days(m) < NewMemberDays THEN "yes"
    ELSE IF m.keyword THEN "yes"
    ELSE "no"

\* The except clause treats a pre-filter that raised as suspicious.
ExceptPossiblySpamTrue == TRUE

\* on_message's try/except around the pre-filter (L226-230): the value of
\* possibly_spam when check_if_possible_spam raised.
ExceptPossiblySpam == FALSE

possibly_spam(m) ==
    LET r == check_if_possible_spam(m)
    IN  IF r = "raise" THEN ExceptPossiblySpam ELSE r = "yes"


\* ------------------------------------------------------------ classifier adapter
\* The raw text of resp.choices[0].message.content, a sequence of characters
\* (<<>> is None or the empty string).
RawResponses ==
    { <<"S", "P", "A", "M">>,
      <<" ", "s", "p", "a", "m", " ">>,
      <<"N", "O", "T", "_", "S", "P", "A", "M">>,
      <<"S", "P", "A", "M", ".">>,
      <<>> }

\* What the awaited client.chat.completions.create does: it returns a
\* response or raises RateLimitError or another exception.
ClassifierOutcomes ==
    [kind : {"response"}, raw : RawResponses]
        \cup { [kind |-> "ratelimit", raw |-> <<>>], [kind |-> "error", raw |-> <<>>] }

IsSpace(c) == c = " "

RECURSIVE LStrip(_)
LStrip(s) == IF s # <<>> /\ IsSpace(Head(s)) THEN LStrip(Tail(s)) ELSE s

RECURSIVE RStrip(_)
RStrip(s) ==
    IF s # <<>> /\ IsSpace(s[Len(s)]) THEN RStrip(SubSeq(s, 1, Len(s) - 1)) ELSE s

\* str.strip()
Strip(s) == RStrip(LStrip(s))

UpperChar(c) ==
    CASE c = "s" -> "S" [] c = "p" -> "P" [] c = "a" -> "A" [] c = "m" -> "M"
      [] OTHER -> c

\* str.upper()
Upper(s) == [i \in 1..Len(s) |-> UpperChar(s[i])]

\* The except clauses fail closed.
IsSpamOnErrorTrue == TRUE

\* What is_spam returns when the call raised (both except clauses).
IsSpamOnError == FALSE

is_spam(c) ==
    IF c.kind = "response"
    THEN Upper(Strip(c.raw)) = <<"S", "P", "A", "M">>
    ELSE IsSpamOnError

\* ------------------------------------------------------------ metrics
ZeroMetrics ==
    [total_messages |-> 0, filtered_locally |-> 0, sent_to_api |-> 0,
     spam_detected |-> 0]

\* load_metrics when METRICS_FILE does not exist (start_date never changes
\* afterwards and is left out).
load_metrics == ZeroMetrics

\* The file: absent before the first write; "partial" after a write that
\* failed once the file had been truncated by open(..., 'w').
NoFile == [state |-> "absent", data |-> ZeroMetrics]

\* open() raises (the file is untouched) or json.dump raises part-way.
SaveOutcomes == {"ok", "denied", "partial"}

\* The file after save_metrics(m) with outcome o, d being the file before.
save_metrics(m, d, o) ==
    CASE o = "ok" -> [state |-> "ok", data |-> m]
      [] o = "denied" -> d
      [] OTHER -> [state |-> "partial", data |-> ZeroMetrics]

Bump(m, field) == [m EXCEPT ![field] = @ + 1]

\* ------------------------------------------------------------ state
VARIABLES
    metrics_data,        \* the in-memory metrics record
    disk,                \* METRICS_FILE
    user_spam_attempts,  \* user -> timestamps of suspicious messages
    user_spam_detected,  \* user -> confirmed-spam counter
    now,                 \* datetime.now(), in seconds
    handlers,            \* slot -> the on_message task running in it
    audit,               \* lines in SpamRemover_deleted.log
    received,            \* history: events whose author is not the bot
    incs,                \* history: increments performed, per counter
    writeFailed,         \* history: some save_metrics call raised
    overlaps,            \* history: messages that arrived while a task was in flight
    faults,              \* history: calls that have raised so far
    ticks,               \* history: clock advances so far
    others,              \* history: messages of users other than user 1 so far
    aborts,              \* history: tasks that an exception has ended so far
    susCount,            \* history: user -> suspicious messages so far
    firstSus,            \* history: user -> receive time of the first of them
    burst,               \* history: user -> "reached" once the first
                         \*          MAX_SUS_MESSAGES of them have arrived less
                         \*          than TIME_WINDOW s after the first,
                         \*          "punished" once L253-263 have run for the last
    confirmed,           \* history: user -> messages is_spam returned True for
    applied,             \* history: user -> {<<occurrence, minutes>>} of timeouts applied
    probe,               \* a message handed to check_if_possible_spam on its own
    answer               \* what check_if_possible_spam did with probe

\* The bot and its history.
runVars ==
    <<metrics_data, disk, user_spam_attempts, user_spam_detected, now, handlers,
      audit, received, incs, writeFailed, overlaps, faults, ticks, others,
      aborts, susCount, firstSus, burst, confirmed, applied>>

\* The pre-filter taken on its own.
filterVars == <<probe, answer>>

vars ==
    <<metrics_data, disk, user_spam_attempts, user_spam_detected, now, handlers,
      audit, received, incs, writeFailed, overlaps, faults, ticks, others,
      aborts, susCount, firstSus, burst, confirmed, applied, probe, answer>>

\* Outcomes of an awaited platform call (timeout, delete, channel.send):
\* it returns, raises discord.errors.Forbidden, or raises something else.
CallOutcomes == {"ok", "forbidden", "error"}

\* A task slot. pc names the await the task is suspended at ("done": the
\* coroutine has just returned or raised); user, attempt_count and
\* timeout_mins are the task's locals; the other fields are the history of
\* what this task did to its message:
\*   suspicious, raised   what the pre-filter said, whether it raised
\*   nth, sinceFirst      the message is the user's nth suspicious one, that
\*                        many seconds after the user's first
\*   call, verdict        how the classifier call ended, what is_spam returned
\*   apiCalls             calls of is_spam
\*   sentInc, filtInc, spamInc   increments of the three counters
\*   rlTimedOut, rlDeleted       the timeout (L253) and delete (L263) happened
\*   spDeleted, spTimeouts       the delete (L290) happened, minutes of L298
\*   notices              notices sent to the channel, in order
\*   occ, kth             the counter after L282, the message is the user's
\*                        kth that is_spam confirmed
\*   seen                 the counter as read at L291
\*   denied, warnedAfter  a timeout or delete raised Forbidden, a notice was
\*                        sent after that
\*   spFailed             a platform call of L290-305 raised
\*   aborted              an exception left on_message
\*   lines                audit lines written
Idle ==
    [pc |-> "idle", user |-> 0, attempt_count |-> 0, timeout_mins |-> 0,
     suspicious |-> FALSE, raised |-> FALSE, nth |-> 0, sinceFirst |-> 0,
     call |-> "none", verdict |-> "none", apiCalls |-> 0, sentInc |-> 0,
     filtInc |-> 0, spamInc |-> 0, rlTimedOut |-> FALSE, rlDeleted |-> FALSE,
     spDeleted |-> FALSE, spTimeouts |-> <<>>, notices |-> <<>>, occ |-> 0,
     kth |-> 0, seen |-> 0, denied |-> FALSE, warnedAfter |-> FALSE,
     spFailed |-> FALSE, aborted |-> FALSE, lines |-> 0]

Free(h) == handlers[h].pc = "idle"

InFlight == {h \in Slots : handlers[h].pc \notin {"idle", "done"}}

\* A coroutine that has returned is gone before the event loop runs
\* anything else.
NoneDone == \A h \in Slots : handlers[h].pc # "done"

\* The bot after module initialisation, nothing received yet.
InitRun ==
    /\ metrics_data = load_metrics
    /\ disk = NoFile
    /\ user_spam_attempts = [u \in Users |-> <<>>]
    /\ user_spam_detected = [u \in Users |-> 0]
    /\ now = 0
    /\ handlers = [h \in Slots |-> Idle]
    /\ audit = 0
    /\ received = 0
    /\ incs = ZeroMetrics
    /\ writeFailed = FALSE
    /\ overlaps = 0
    /\ faults = 0
    /\ ticks = 0
    /\ others = 0
    /\ aborts = 0
    /\ susCount = [u \in Users |-> 0]
    /\ firstSus = [u \in Users |-> 0]
    /\ burst = [u \in Users |-> "no"]
    /\ confirmed = [u \in Users |-> 0]
    /\ applied = [u \in Users |-> {}]

\* No message is handed to the pre-filter on its own.
NoMessage ==
    [len |-> 0, mention |-> FALSE, link |-> FALSE, keyword |-> FALSE,
     member |-> TRUE, roles |-> 1, acct |-> 0, joined |-> TRUE, join |-> 0]

Init ==
    /\ InitRun
    /\ probe = NoMessage
    /\ answer = "none"


\* ------------------------------------------------------------ abuse tracker
\* An entry exactly TIME_WINDOW seconds old is kept.
PruneInclusive(w, t) == SelectSeq(w, LAMBDA x : t - x <= TIME_WINDOW)

\* L241-244: the entries less than TIME_WINDOW seconds old at time t.
Prune(w, t) == SelectSeq(w, LAMBDA x : t - x < TIME_WINDOW)

\* L239-246: the window after a suspicious message is recorded at time t.
RecordSuspicious(w, t) == Prune(Append(w, t), t)

\* The limit is reached one message late.
RateLimitedLate(count) == count > MAX_SUS_MESSAGES

\* L250
RateLimited(count) == count >= MAX_SUS_MESSAGES

\* The window survives the punishment.
ClearedWindowKept(w) == w

\* L264
ClearedWindow(w) == <<>>

\* The timeout does not grow with the occurrence.
TimeoutMinutesFlat(k) == TimeoutStepMinutes

\* L297
TimeoutMinutes(k) == TimeoutStepMinutes * k

\* L291: the occurrence that is warned instead of timed out.
WarnedOccurrence == 1

\* ------------------------------------------------------------ on_message
\* 1 when the condition holds.
One(b) == IF b THEN 1 ELSE 0

\* A task whose exception leaves on_message never ends.
AbortStuck(rec) == [rec EXCEPT !.pc = "crashed", !.aborted = TRUE]

\* bot.process_commands (L235, L267, L312) is awaited last on every path
\* that returns normally.  For a message that is not a command it runs to
\* completion without suspending and touches none of the state above, so the
\* step that reaches it also returns from on_message.
\*
\* An exception that leaves on_message ends the task (discord.py's event
\* runner logs it); the message is not processed any further.
Abort(rec) == [rec EXCEPT !.pc = "done", !.aborted = TRUE]

\* A platform call raised r: Forbidden from timeout or delete is a refusal.
Refused(rec, r) == [rec EXCEPT !.denied = (@ \/ r = "forbidden")]

\* A notice of the given kind was sent to the channel.
Noticed(rec, kind) ==
    [rec EXCEPT !.notices = Append(@, kind), !.warnedAfter = (@ \/ rec.denied)]

\* The notices of the given kinds among those a task has sent.
Sent(rec, kinds) == SelectSeq(rec.notices, LAMBDA x : x \in kinds)

\* L231-235: the counters of a message that is not possibly spam.
ClearMetrics(m) == Bump(m, "filtered_locally")

\* The rate-limit punishment is counted nowhere.
RateLimitMetricsForgotten(m) == m

\* L264-265: the counters after a completed rate-limit punishment.
RateLimitMetrics(m) == Bump(m, "filtered_locally")

\* L275: the counters of a message that goes to the classifier.
ApiMetrics(m) == Bump(m, "sent_to_api")

\* L280
SpamMetrics(m) == Bump(m, "spam_detected")

\* The record is written before sent_to_api is raised.
ToClassifierSaveFirst(h, rec, m0, d0, i0, w0, o) ==
    LET m1 == ApiMetrics(m0)
        r1 == [rec EXCEPT !.sentInc = @ + 1]
    IN  /\ metrics_data' = m1
        /\ incs' = Bump(i0, "sent_to_api")
        /\ disk' = save_metrics(m0, d0, o)
        /\ writeFailed' = (w0 \/ o # "ok")
        /\ aborts' = aborts + One(o # "ok")
        /\ handlers' = [handlers EXCEPT ![h] =
               IF o = "ok" THEN [r1 EXCEPT !.pc = "classify"] ELSE Abort(r1)]

\* L275-278, up to the await of is_spam: rec, m0, d0, i0, w0 are the task
\* record, the metrics, the file, the increment history and the write-failure
\* flag the step has produced so far; o is the outcome of save_metrics (L276),
\* which is outside every try block.
ToClassifier(h, rec, m0, d0, i0, w0, o) ==
    LET m1 == ApiMetrics(m0)
        r1 == [rec EXCEPT !.sentInc = @ + 1]
    IN  /\ metrics_data' = m1
        /\ incs' = Bump(i0, "sent_to_api")
        /\ disk' = save_metrics(m1, d0, o)
        /\ writeFailed' = (w0 \/ o # "ok")
        /\ aborts' = aborts + One(o # "ok")
        /\ handlers' = [handlers EXCEPT ![h] =
               IF o = "ok" THEN [r1 EXCEPT !.pc = "classify"] ELSE Abort(r1)]

Disturbances == faults + overlaps + ticks + others

\* The calls of one step that raised, out of the outcomes the step used.
Raised(outcomes) == Len(SelectSeq(outcomes, LAMBDA x : x # "ok"))

\* The step's calls had these outcomes; an outcome the step never reaches is
\* written "ok".
Calls(outcomes) ==
    /\ Disturbances + Raised(outcomes) <= MaxDisturbances
    /\ faults' = faults + Raised(outcomes)

\* The lowest free slot takes the next task.
NextSlot == CHOOSE h \in Slots : Free(h) /\ \A g \in Slots : Free(g) => h <= g

\* L214-217: an event whose author is the bot itself (its own notices come
\* back as events) is ignored.
ReceiveOwn ==
    /\ NoneDone
    /\ UNCHANGED vars

\* L214-253: a message m of user u arrives; the task runs to its first await.
Receive(u, m, o) ==
    /\ NoneDone
    /\ UNCHANGED filterVars
    /\ received < MaxMessages
    /\ \E h \in Slots : Free(h)
    /\ LET h == NextSlot
           m1 == Bump(metrics_data, "total_messages")
           i1 == Bump(incs, "total_messages")
           r0 == [Idle EXCEPT !.user = u,
                              !.raised = (check_if_possible_spam(m) = "raise")]
       IN  /\ received' = received + 1
           /\ Disturbances + Raised(<<o>>) + One(InFlight # {}) + One(u # 1)
                  <= MaxDisturbances
           /\ faults' = faults + Raised(<<o>>)
           /\ overlaps' = overlaps + One(InFlight # {})
           /\ others' = others + One(u # 1)
           /\ (possibly_spam(m)
                 /\ RateLimited(Len(RecordSuspicious(user_spam_attempts[u], now))))
              => o = "ok"
           /\ IF ~possibly_spam(m)
              THEN \* L231-236
                   LET m2 == ClearMetrics(m1)
                       r1 == [r0 EXCEPT !.filtInc = @ + 1]
                   IN  /\ metrics_data' = m2
                       /\ incs' = Bump(i1, "filtered_locally")
                       /\ disk' = save_metrics(m2, disk, o)
                       /\ writeFailed' = (writeFailed \/ o # "ok")
                       /\ aborts' = aborts + One(o # "ok")
                       /\ handlers' = [handlers EXCEPT ![h] =
                              IF o = "ok" THEN [r1 EXCEPT !.pc = "done"]
                              ELSE Abort(r1)]
                       /\ UNCHANGED <<user_spam_attempts, susCount, firstSus, burst>>
              ELSE \* L238-250
                   LET w == RecordSuspicious(user_spam_attempts[u], now)
                       n == susCount[u] + 1
                       t1 == IF n = 1 THEN now ELSE firstSus[u]
                       r1 == [r0 EXCEPT !.suspicious = TRUE,
                                        !.attempt_count = Len(w),
                                        !.nth = n,
                                        !.sinceFirst = now - t1]
                   IN  /\ user_spam_attempts' = [user_spam_attempts EXCEPT ![u] = w]
                       /\ susCount' = [susCount EXCEPT ![u] = n]
                       /\ firstSus' = [firstSus EXCEPT ![u] = t1]
                       /\ burst' = [burst EXCEPT ![u] =
                              IF n = MAX_SUS_MESSAGES /\ now - t1 < TIME_WINDOW
                              THEN "reached" ELSE @]
                       /\ IF RateLimited(Len(w))
                          THEN \* L251-253, suspended in author.timeout
                               /\ metrics_data' = m1
                               /\ incs' = i1
                               /\ handlers' = [handlers EXCEPT ![h] =
                                      [r1 EXCEPT !.pc = "rl_timeout"]]
                               /\ UNCHANGED <<disk, writeFailed, aborts>>
                          ELSE ToClassifier(h, r1, m1, disk, i1, writeFailed, o)
    /\ UNCHANGED <<ticks, user_spam_detected, now, audit, confirmed, applied>>

\* L253: author.timeout(...) returns or raises.
RlTimeout(h, r, o) ==
    /\ NoneDone
    /\ UNCHANGED filterVars
    /\ handlers[h].pc = "rl_timeout"
    /\ Calls(<<r, o>>)
    /\ r = "ok" => o = "ok"
    /\ IF r = "ok"
       THEN /\ handlers' = [handlers EXCEPT ![h] =
                   [@ EXCEPT !.pc = "rl_send", !.rlTimedOut = TRUE]]
            /\ UNCHANGED <<metrics_data, disk, incs, writeFailed, aborts>>
       ELSE \* L269-272: both handlers only print; control falls to L275
            ToClassifier(h, Refused(handlers[h], r), metrics_data, disk, incs,
                         writeFailed, o)
    /\ UNCHANGED <<others, ticks, user_spam_attempts, user_spam_detected, now, audit, received,
                   overlaps, susCount, firstSus, burst, confirmed, applied>>

\* L254-262: channel.send returns or raises; then the audit line is written.
RlSend(h, r, o) ==
    /\ NoneDone
    /\ UNCHANGED filterVars
    /\ handlers[h].pc = "rl_send"
    /\ Calls(<<r, o>>)
    /\ r = "ok" => o = "ok"
    /\ IF r = "ok"
       THEN /\ handlers' = [handlers EXCEPT ![h] =
                   [Noticed(@, "ratelimit") EXCEPT !.pc = "rl_delete",
                                                   !.lines = @ + 1]]
            /\ audit' = audit + 1
            /\ UNCHANGED <<metrics_data, disk, incs, writeFailed, aborts>>
       ELSE /\ ToClassifier(h, handlers[h], metrics_data, disk, incs, writeFailed, o)
            /\ UNCHANGED audit
    /\ UNCHANGED <<others, ticks, user_spam_attempts, user_spam_detected, now, received,
                   overlaps, susCount, firstSus, burst, confirmed, applied>>

\* L263-267: message.delete returns or raises; on return the window is
\* cleared and the message counted as filtered locally.  save_metrics (L266,
\* outcome o) is inside the try: when it raises, "except Exception" prints
\* and control falls to L275, where save_metrics runs again (outcome o2).
RlDelete(h, r, o, o2) ==
    /\ NoneDone
    /\ UNCHANGED filterVars
    /\ handlers[h].pc = "rl_delete"
    /\ Calls(<<r, o, o2>>)
    /\ (r # "ok" \/ o = "ok") => o2 = "ok"
    /\ LET u == handlers[h].user IN
       IF r = "ok"
       THEN LET m1 == RateLimitMetrics(metrics_data)
                i1 == Bump(incs, "filtered_locally")
                r1 == [handlers[h] EXCEPT !.rlDeleted = TRUE, !.filtInc = @ + 1]
            IN  /\ user_spam_attempts' =
                       [user_spam_attempts EXCEPT ![u] = ClearedWindow(@)]
                /\ burst' = [burst EXCEPT ![u] =
                       IF handlers[h].nth = MAX_SUS_MESSAGES /\ @ = "reached"
                       THEN "punished" ELSE @]
                /\ IF o = "ok"
                   THEN /\ metrics_data' = m1
                        /\ incs' = i1
                        /\ disk' = save_metrics(m1, disk, o)
                        /\ handlers' = [handlers EXCEPT ![h] =
                               [r1 EXCEPT !.pc = "done"]]
                        /\ UNCHANGED <<writeFailed, aborts>>
                   ELSE ToClassifier(h, r1, m1, save_metrics(m1, disk, o), i1, TRUE, o2)
       ELSE /\ ToClassifier(h, Refused(handlers[h], r), metrics_data, disk, incs,
                            writeFailed, o)
            /\ UNCHANGED <<user_spam_attempts, burst>>
    /\ UNCHANGED <<others, ticks, user_spam_detected, now, audit, received, overlaps, susCount,
                   firstSus, confirmed, applied>>


\* L278-290: is_spam returns.  On True the counters are raised and saved
\* (L280-281, outside the try: a failed write ends the task before L282),
\* the audit line is written and the task suspends in message.delete.
Classify(h, c, o) ==
    /\ NoneDone
    /\ UNCHANGED filterVars
    /\ handlers[h].pc = "classify"
    /\ Calls(<<IF c.kind = "response" THEN "ok" ELSE c.kind, o>>)
    /\ ~is_spam(c) => o = "ok"
    /\ LET u == handlers[h].user
           r0 == [handlers[h] EXCEPT !.apiCalls = @ + 1, !.call = c.kind]
       IN  IF is_spam(c)
           THEN LET m1 == SpamMetrics(metrics_data)
                    k == user_spam_detected[u] + 1
                    r1 == [r0 EXCEPT !.verdict = "spam", !.spamInc = @ + 1,
                                     !.kth = confirmed[u] + 1]
                IN  /\ metrics_data' = m1
                    /\ incs' = Bump(incs, "spam_detected")
                    /\ disk' = save_metrics(m1, disk, o)
                    /\ writeFailed' = (writeFailed \/ o # "ok")
                    /\ confirmed' = [confirmed EXCEPT ![u] = @ + 1]
                    /\ aborts' = aborts + One(o # "ok")
                    /\ IF o = "ok"
                       THEN /\ user_spam_detected' =
                                   [user_spam_detected EXCEPT ![u] = k]
                            /\ audit' = audit + 1
                            /\ handlers' = [handlers EXCEPT ![h] =
                                   [r1 EXCEPT !.pc = "sp_delete", !.occ = k,
                                              !.lines = @ + 1]]
                       ELSE /\ handlers' = [handlers EXCEPT ![h] = Abort(r1)]
                            /\ UNCHANGED <<user_spam_detected, audit>>
           ELSE /\ handlers' = [handlers EXCEPT ![h] =
                       [r0 EXCEPT !.pc = "done", !.verdict = "clean"]]
                /\ UNCHANGED <<metrics_data, incs, disk, writeFailed, confirmed,
                               user_spam_detected, audit, aborts>>
    /\ UNCHANGED <<others, ticks, user_spam_attempts, now, received, overlaps, susCount,
                   firstSus, burst, applied>>

\* L290-301: message.delete returns or raises.  On return the counter is
\* read again (L291, L297) to choose between the warning and the timeout.
SpDelete(h, r) ==
    /\ NoneDone
    /\ UNCHANGED filterVars
    /\ handlers[h].pc = "sp_delete"
    /\ Calls(<<r>>)
    /\ LET u == handlers[h].user IN
       handlers' = [handlers EXCEPT ![h] =
           CASE r = "ok" ->
                  IF user_spam_detected[u] = WarnedOccurrence
                  THEN [@ EXCEPT !.pc = "sp_warn", !.spDeleted = TRUE,
                                 !.seen = user_spam_detected[u]]
                  ELSE [@ EXCEPT !.pc = "sp_timeout", !.spDeleted = TRUE,
                                 !.seen = user_spam_detected[u],
                                 !.timeout_mins = TimeoutMinutes(user_spam_detected[u])]
             [] r = "forbidden" ->
                  [Refused(@, r) EXCEPT !.pc = "sp_fallback", !.spFailed = TRUE]
             [] OTHER -> [@ EXCEPT !.pc = "done", !.spFailed = TRUE]]
    /\ UNCHANGED <<aborts, others, ticks, metrics_data, disk, user_spam_attempts, user_spam_detected, now,
                   audit, received, incs, writeFailed, overlaps, susCount,
                   firstSus, burst, confirmed, applied>>

\* L292-295: the first-offence warning is sent or channel.send raises.
SpWarn(h, r) ==
    /\ NoneDone
    /\ UNCHANGED filterVars
    /\ handlers[h].pc = "sp_warn"
    /\ Calls(<<r>>)
    /\ handlers' = [handlers EXCEPT ![h] =
           CASE r = "ok" -> [Noticed(@, "warning") EXCEPT !.pc = "done"]
             [] r = "forbidden" -> [@ EXCEPT !.pc = "sp_fallback", !.spFailed = TRUE]
             [] OTHER -> [@ EXCEPT !.pc = "done", !.spFailed = TRUE]]
    /\ UNCHANGED <<aborts, others, ticks, metrics_data, disk, user_spam_attempts, user_spam_detected, now,
                   audit, received, incs, writeFailed, overlaps, susCount,
                   firstSus, burst, confirmed, applied>>

\* L298-302: author.timeout(timeout_mins) returns or raises.
SpTimeout(h, r) ==
    /\ NoneDone
    /\ UNCHANGED filterVars
    /\ handlers[h].pc = "sp_timeout"
    /\ Calls(<<r>>)
    /\ LET u == handlers[h].user
           mins == handlers[h].timeout_mins
       IN  /\ handlers' = [handlers EXCEPT ![h] =
                  CASE r = "ok" -> [@ EXCEPT !.pc = "done",
                                             !.spTimeouts = Append(@, mins)]
                    [] r = "forbidden" ->
                         [Refused(@, r) EXCEPT !.pc = "sp_fallback", !.spFailed = TRUE]
                    [] OTHER -> [@ EXCEPT !.pc = "done", !.spFailed = TRUE]]
           /\ applied' = IF r = "ok"
                         THEN [applied EXCEPT ![u] = @ \cup {<<handlers[h].occ, mins>>}]
                         ELSE applied
    /\ UNCHANGED <<aborts, others, ticks, metrics_data, disk, user_spam_attempts, user_spam_detected, now,
                   audit, received, incs, writeFailed, overlaps, susCount,
                   firstSus, burst, confirmed>>

\* L303-305: the "flagged as spam" notice sent from the Forbidden handler.
\* An exception raised here is raised inside an except clause and leaves
\* on_message.
SpFallback(h, r) ==
    /\ NoneDone
    /\ UNCHANGED filterVars
    /\ handlers[h].pc = "sp_fallback"
    /\ Calls(<<r>>)
    /\ handlers' = [handlers EXCEPT ![h] =
           IF r = "ok"
           THEN [Noticed(@, "flagged") EXCEPT !.pc = "done"]
           ELSE Abort([@ EXCEPT !.spFailed = TRUE])]
    /\ aborts' = aborts + One(r # "ok")
    /\ UNCHANGED <<others, ticks, metrics_data, disk, user_spam_attempts, user_spam_detected, now,
                   audit, received, incs, writeFailed, overlaps, susCount,
                   firstSus, burst, confirmed, applied>>

\* The finished coroutine is discarded.
Return(h) ==
    /\ handlers[h].pc = "done"
    /\ UNCHANGED filterVars
    /\ handlers' = [handlers EXCEPT ![h] = Idle]
    /\ UNCHANGED <<aborts, others, ticks, faults, metrics_data, disk, user_spam_attempts, user_spam_detected, now,
                   audit, received, incs, writeFailed, overlaps, susCount,
                   firstSus, burst, confirmed, applied>>

\* Time passes.
Tick(d) ==
    /\ NoneDone
    /\ UNCHANGED filterVars
    /\ now + d <= MaxTime
    /\ Disturbances < MaxDisturbances
    /\ now' = now + d
    /\ ticks' = ticks + 1
    /\ UNCHANGED <<aborts, others, faults, metrics_data, disk, user_spam_attempts, user_spam_detected,
                   handlers, audit, received, incs, writeFailed, overlaps,
                   susCount, firstSus, burst, confirmed, applied>>

\* One step of the task in slot h.
Step(h) ==
    \/ \E r \in CallOutcomes, o \in SaveOutcomes : RlTimeout(h, r, o)
    \/ \E r \in CallOutcomes, o \in SaveOutcomes : RlSend(h, r, o)
    \/ \E r \in CallOutcomes, o \in SaveOutcomes, o2 \in SaveOutcomes : RlDelete(h, r, o, o2)
    \/ \E c \in ClassifierOutcomes, o \in SaveOutcomes : Classify(h, c, o)
    \/ \E r \in CallOutcomes : SpDelete(h, r)
    \/ \E r \in CallOutcomes : SpWarn(h, r)
    \/ \E r \in CallOutcomes : SpTimeout(h, r)
    \/ \E r \in CallOutcomes : SpFallback(h, r)
    \/ Return(h)

Next ==
    \/ ReceiveOwn
    \/ \E u \in Users, m \in SampleMessages, o \in SaveOutcomes : Receive(u, m, o)
    \/ \E h \in Slots : Step(h)
    \/ \E d \in TickSteps : Tick(d)

Spec == Init /\ [][Next]_vars

\* Every awaited call returns or raises, so a suspended task is resumed.
FairSpec == Spec /\ \A h \in Slots : WF_vars(Step(h))

\* ------------------------------------------------------------ the pre-filter on its own
\* Every message the rules of check_if_possible_spam can tell apart: content
\* one character short of, at and over MinContentLen; role counts up to one
\* over TrustedRoles; ages one day short of and at the thresholds.
ProbeLengths == {MinContentLen - 1, MinContentLen, MinContentLen + 1}
ProbeRoles == 0..(TrustedRoles + 1)
ProbeAccountDays == {NewAccountDays - 1, NewAccountDays}
ProbeJoinDays == {NewMemberDays - 1, NewMemberDays}

\* An author that is not a discord.Member has neither roles nor joined_at.
Messages ==
    { m \in [len : ProbeLengths, mention : BOOLEAN, link : BOOLEAN,
             keyword : BOOLEAN, member : BOOLEAN, roles : ProbeRoles,
             acct : ProbeAccountDays, joined : BOOLEAN, join : ProbeJoinDays] :
        /\ ~m.member => (m.roles = 0 /\ ~m.joined)
        /\ ~m.joined => m.join = NewMemberDays }

FilterInit ==
    /\ InitRun
    /\ probe \in Messages
    /\ answer = "none"

\* L227: check_if_possible_spam(message) returns or raises.
CheckMessage ==
    /\ answer = "none"
    /\ answer' = check_if_possible_spam(probe)
    /\ UNCHANGED <<probe, runVars>>

FilterNext == CheckMessage

FilterSpec == FilterInit /\ [][FilterNext]_vars


\* ------------------------------------------------------------ claims
Done(h) == handlers[h].pc = "done"

\* C1: while every metrics write has succeeded, total_messages is the number
\* of messages received, every finished message has raised exactly one of
\* filtered_locally and sent_to_api, exactly once, and with no task in
\* flight filtered_locally + sent_to_api = total_messages.
C1_MetricsPartition ==
    ~writeFailed =>
        /\ metrics_data.total_messages = received
        /\ \A h \in Slots : Done(h) => handlers[h].filtInc + handlers[h].sentInc = 1
        /\ InFlight = {} =>
               metrics_data.filtered_locally + metrics_data.sent_to_api
                   = metrics_data.total_messages

\* A rate-limited message whose timeout was refused has finished, counted
\* once, with no task in flight.
C1_Witness ==
    /\ ~writeFailed
    /\ InFlight = {}
    /\ \E h \in Slots :
           /\ Done(h)
           /\ RateLimited(handlers[h].attempt_count)
           /\ handlers[h].denied
           /\ handlers[h].sentInc = 1

\* C2: a message that brings its author's window to MAX_SUS_MESSAGES or more
\* is never handed to the classifier and never raises sent_to_api.
C2_RateLimitedNeverClassified ==
    \A h \in Slots :
        RateLimited(handlers[h].attempt_count) =>
            handlers[h].apiCalls = 0 /\ handlers[h].sentInc = 0

\* C3: with a user's tasks running one after another, the first
\* MAX_SUS_MESSAGES suspicious messages of the user, sent less than
\* TIME_WINDOW seconds after the first, are counted 1, 2, ... so that the
\* rate limit is reached by the last one only; once that one has been
\* punished (timeout, notice, delete) the user's window is empty; and the
\* next suspicious message, TIME_WINDOW + 1 seconds or more after the first,
\* is counted 1.
C3_BurstRateLimit ==
    overlaps = 0 =>
        \A h \in Slots :
            LET r == handlers[h] IN
            r.suspicious =>
                /\ (r.nth <= MAX_SUS_MESSAGES /\ r.sinceFirst < TIME_WINDOW) =>
                       /\ r.attempt_count = r.nth
                       /\ RateLimited(r.attempt_count) <=> r.nth = MAX_SUS_MESSAGES
                /\ (r.nth = MAX_SUS_MESSAGES /\ r.sinceFirst < TIME_WINDOW
                      /\ r.pc = "done" /\ r.rlDeleted) =>
                       user_spam_attempts[r.user] = <<>>
                /\ (r.nth = MAX_SUS_MESSAGES + 1 /\ burst[r.user] = "punished"
                      /\ r.sinceFirst >= TIME_WINDOW + 1) =>
                       /\ r.attempt_count = 1
                       /\ Len(user_spam_attempts[r.user]) = 1

\* The sixth suspicious message of a punished burst has arrived
\* TIME_WINDOW + 1 seconds after the first.
C3_Witness ==
    /\ overlaps = 0
    /\ \E h \in Slots :
           /\ handlers[h].nth = MAX_SUS_MESSAGES + 1
           /\ burst[handlers[h].user] = "punished"
           /\ handlers[h].sinceFirst >= TIME_WINDOW + 1
           /\ handlers[h].pc = "classify"

\* C4: is_spam is called at most once for a message, and when the call
\* raised (rate limit or anything else) is_spam returned False: the task
\* ended normally without the delete, warning, flag or timeout of L284-305
\* and without raising spam_detected or the user's counter.
C4_ClassifierFailsOpen ==
    \A h \in Slots :
        LET r == handlers[h] IN
        /\ r.apiCalls <= 1
        /\ r.call \in {"ratelimit", "error"} =>
               /\ r.verdict = "clean"
               /\ r.pc = "done" /\ ~r.aborted
               /\ ~r.spDeleted
               /\ r.spTimeouts = <<>>
               /\ Sent(r, {"warning", "flagged"}) = <<>>
               /\ r.spamInc = 0 /\ r.occ = 0

\* A task whose classifier call was rate limited has finished.
C4_Witness ==
    \E h \in Slots : Done(h) /\ handlers[h].call = "ratelimit"

\* C5: the step that receives a message on which the pre-filter raises
\* counts it in total_messages and filtered_locally only, leaves every
\* window and every confirmed-spam counter as it was, and ends the task with
\* no classifier call, delete, timeout, notice or audit line.
C5_FilterFaultFailsOpen ==
    [][\A h \in Slots :
           (handlers'[h].raised /\ ~handlers[h].raised) =>
               /\ metrics_data' =
                      [metrics_data EXCEPT !.total_messages = @ + 1,
                                           !.filtered_locally = @ + 1]
               /\ user_spam_attempts' = user_spam_attempts
               /\ user_spam_detected' = user_spam_detected
               /\ audit' = audit
               /\ handlers'[h].pc = "done"
               /\ ~handlers'[h].suspicious
               /\ handlers'[h].apiCalls = 0
               /\ ~handlers'[h].rlTimedOut /\ ~handlers'[h].rlDeleted
               /\ ~handlers'[h].spDeleted /\ handlers'[h].spTimeouts = <<>>
               /\ handlers'[h].notices = <<>>]_vars

\* A message on which the pre-filter raised has been handled.
C5_Witness ==
    \E h \in Slots : Done(h) /\ handlers[h].raised /\ handlers[h].filtInc = 1

\* C6: a task in which a timeout or a delete was refused (Forbidden), no
\* other call of the run having failed, has sent a notice to the channel
\* after the refusal and has ended normally.
C6_RefusalFallsBack ==
    \A h \in Slots :
        (Done(h) /\ handlers[h].denied /\ faults = 1) =>
            handlers[h].warnedAfter /\ ~handlers[h].aborted

\* C7: every counter equals the number of increments performed on it, and
\* once every task has finished, with every write having succeeded, the file
\* holds the in-memory record.
C7_NoLostUpdate ==
    /\ metrics_data = incs
    /\ (~writeFailed /\ received > 0 /\ InFlight = {}) =>
           disk = [state |-> "ok", data |-> metrics_data]

\* Two tasks have run interleaved and both have finished.
C7_Witness ==
    /\ overlaps > 0
    /\ ~writeFailed
    /\ InFlight = {}
    /\ NoneDone
    /\ metrics_data.sent_to_api >= 2

\* C8: every task that has started ends, whatever fails, and every message
\* received, also after a task was ended by an exception, is counted in
\* total_messages.
C8_HandlingEnds ==
    /\ \A h \in Slots : (handlers[h].pc \notin {"idle", "done"}) ~> Done(h)
    /\ [](metrics_data.total_messages = received)

\* After an exception ended a task, a later message went through the
\* classifier and its task returned normally.
C8_Witness ==
    /\ aborts > 0
    /\ \E h \in Slots : Done(h) /\ ~handlers[h].aborted /\ handlers[h].apiCalls = 1

\* C9: while every metrics write succeeds, a user's confirmed-spam counter
\* never decreases, the k-th message of a user that is_spam confirms gets
\* occurrence number k, and the timeout applied for occurrence k is at least
\* the one applied for occurrence k-1.
C9_MonotoneEscalation ==
    [][~writeFailed' =>
          /\ \A u \in Users : user_spam_detected'[u] >= user_spam_detected[u]
          /\ \A h \in Slots :
                 handlers'[h].verdict = "spam" => handlers'[h].occ = handlers'[h].kth
          /\ \A u \in Users : \A p, q \in applied'[u] :
                 p[1] = q[1] + 1 => p[2] >= q[2]]_vars

\* The confirmed-spam punishment of a finished task ran with every platform
\* call returning.
Punished(h) ==
    /\ Done(h)
    /\ handlers[h].verdict = "spam"
    /\ ~handlers[h].aborted
    /\ ~handlers[h].spFailed

C11_WriteFaultTolerated ==
    /\ metrics_data = incs
    /\ \A h \in Slots :
           (Done(h) /\ writeFailed /\ faults = 1) =>
               /\ ~handlers[h].aborted
               /\ handlers[h].filtInc + handlers[h].sentInc = 1

Checked == answer # "none"

\* C13 as stated: every message whose content holds a URL-like token is
\* found suspicious, whatever its other features.
C13_AsStated ==
    (Checked /\ probe.link) => answer = "yes"

\* C13, amended: every message of at least MinContentLen characters without
\* a broadcast mention whose content holds a URL-like token is found
\* suspicious, whatever the author's account age, join age, roles and the
\* keywords in it.
C13_LinkSuspicious ==
    (Checked /\ probe.link /\ probe.len >= MinContentLen /\ ~probe.mention) =>
        answer = "yes"

\* A link posted by an old account, long a member, without scam keywords was
\* found suspicious.
C13_Witness ==
    /\ Checked
    /\ probe.link /\ ~probe.mention /\ ~probe.keyword
    /\ probe.len = MinContentLen
    /\ probe.acct >= NewAccountDays
    /\ probe.joined /\ probe.join >= NewMemberDays
    /\ answer = "yes"

\* C14: a message shorter than MinContentLen characters is found not
\* suspicious whatever else it holds and whoever wrote it; a message of
\* exactly MinContentLen characters gets the answer the later rules give,
\* the one a longer message with the same features gets.
C14_ShortNotSuspicious ==
    Checked =>
        /\ probe.len < MinContentLen => answer = "no"
        /\ probe.len = MinContentLen =>
               answer = check_if_possible_spam([probe EXCEPT !.len = MinContentLen + 1])

\* A 19-character message with a mention, a link and a keyword from a new
\* account was found not suspicious.
C14_Witness ==
    /\ Checked
    /\ probe.len = MinContentLen - 1
    /\ probe.mention /\ probe.link /\ probe.keyword
    /\ probe.acct < NewAccountDays
    /\ answer = "no"

\* C15: for a message of at least MinContentLen characters with a broadcast
\* mention the answer follows from the author's role count alone: suspicious
\* with at most TrustedRoles roles, not suspicious with more.
C15_MentionByRolesAlone ==
    (Checked /\ probe.len >= MinContentLen /\ probe.mention) =>
        /\ probe.roles <= TrustedRoles => answer = "yes"
        /\ probe.roles > TrustedRoles => answer = "no"

\* C16: with every call succeeding, the audit log holds as many lines as
\* spam_detected was raised, and each task has written one line if is_spam
\* confirmed its message and none otherwise.
C16_AuditPerConfirmedSpam ==
    faults = 0 =>
        /\ audit = incs.spam_detected
        /\ \A h \in Slots : handlers[h].lines = handlers[h].spamInc

\* C17: with every call succeeding, no two tasks of one user are rate
\* limited at the same time (a message that arrives while another one of the
\* user is being punished is not punished as well), and when a rate-limit
\* punishment has run to its end the user's window is empty.
C17_OnePunishmentPerBurst ==
    faults = 0 =>
        /\ \A h, g \in Slots :
               (h # g /\ handlers[h].user = handlers[g].user
                  /\ RateLimited(handlers[h].attempt_count)) =>
                   ~RateLimited(handlers[g].attempt_count)
        /\ \A h \in Slots :
               (Done(h) /\ handlers[h].rlDeleted) =>
                   user_spam_attempts[handlers[h].user] = <<>>

\* C18: with every call succeeding, a confirmed spam message is punished by
\* the occurrence number its own increment produced: the number read when
\* the delete returns is that number, and the task has sent the first-offence
\* warning exactly if the number is 1.
C18_OwnOccurrenceNumber ==
    faults = 0 =>
        \A h \in Slots :
            LET r == handlers[h] IN
            (r.verdict = "spam" /\ r.spDeleted) =>
                /\ r.seen = r.occ
                /\ Done(h) => (r.occ = WarnedOccurrence <=> Sent(r, {"warning"}) # <<>>)

\* C19: the step that records a suspicious message of user u leaves in u's
\* window the entries that were less than TIME_WINDOW seconds old, in order,
\* followed by the timestamp of the message; attempt_count is the length of
\* that window; the windows of the other users are untouched.
C19_WindowAfterRecord ==
    [][\A h \in Slots :
           (handlers'[h].suspicious /\ ~handlers[h].suspicious) =>
               LET u == handlers'[h].user
                   old == user_spam_attempts[u]
                   w == user_spam_attempts'[u]
               IN  /\ w = SelectSeq(old, LAMBDA x : now - x < TIME_WINDOW) \o <<now>>
                   /\ \A i \in 1..Len(w) : now - w[i] < TIME_WINDOW
                   /\ handlers'[h].attempt_count = Len(w)
                   /\ \A v \in Users \ {u} :
                          user_spam_attempts'[v] = user_spam_attempts[v]]_vars

\* A user's second suspicious message arrived exactly TIME_WINDOW seconds
\* after the first and was counted 1.
C19_Witness ==
    \E h \in Slots :
        /\ handlers[h].suspicious
        /\ handlers[h].nth = 2
        /\ handlers[h].sinceFirst = TIME_WINDOW
        /\ handlers[h].attempt_count = 1
        /\ user_spam_attempts[handlers[h].user] = <<now>>

\* The per-user confirmed-spam counters of the users in S, added up.
RECURSIVE SumDetected(_)
SumDetected(S) ==
    IF S = {} THEN 0
    ELSE LET u == CHOOSE x \in S : TRUE
         IN  user_spam_detected[u] + SumDetected(S \ {u})

\* C20: spam_detected <= sent_to_api <= total_messages, and spam_detected is
\* the sum of the users' confirmed-spam counters.
C20_CounterOrder ==
    /\ metrics_data.spam_detected <= metrics_data.sent_to_api
    /\ metrics_data.sent_to_api <= metrics_data.total_messages
    /\ metrics_data.spam_detected = SumDetected(Users)

====
